---- MODULE Spec2Model ----
(***************************************************************************)
(* Model of the OpenSearch shard collector (package opensearch, main).     *)
(*                                                                         *)
(* Two specifications share the module:                                    *)
(*   SpecParse  the pure function convertStoreToBytes applied to every     *)
(*              string over Chars of length at most MaxLen;                *)
(*   Spec       the collector: CollectMetrics registering gauge callbacks, *)
(*              the periodic reader's export cycles invoking them, the     *)
(*              HTTP fetches of fetchShardInfo, context cancellation and   *)
(*              Shutdown.                                                  *)
(*                                                                         *)
(* Strings are sequences of one-character strings.  A float64 is kept as   *)
(* an exact factored number n * 2^p2 * 5^p5 (or NaN); the                  *)
(* rounding of strconv.ParseFloat to the nearest float64 is not modelled,  *)
(* multiplying by a power of two is exact in both.                         *)
(***************************************************************************)
EXTENDS Integers, Sequences, FiniteSets, TLC

\* The longest store string the parser specification enumerates.
MaxLen == 5
\* The characters store strings are built from.  No sign, exponent, hex
\* prefix, underscore, "i" or "f": over this alphabet strconv.ParseFloat
\* accepts exactly the plain decimal numerals and "nan".
Chars == {" ", "0", "1", ".", "k", "b", "m", "g", "n", "a", "B"}
Digits == {"0", "1", "2", "3", "4", "5", "6", "7", "8", "9"}
\* The strings of length n over Chars.
StringsOfLen(n) == [1..n -> Chars]

\* The most records one response carries.
MaxShards == 2
\* The most CollectMetrics calls (ticks of main's one-minute ticker).
MaxCollect == 2
\* The most export cycles the periodic reader's ticker starts.
MaxCycles == 2

VARIABLES
  store,        \* SpecParse: the argument of convertStoreToBytes
  result,       \* SpecParse: what the call returned
  ppc,          \* SpecParse: "call" before the call, "done" after it
  instruments,  \* the instruments the meter has created
  registered,   \* the number of callbacks registered on the meter
  collectErr,   \* what the last CollectMetrics call returned ("none": no call)
  ctxDone,      \* the context given to CollectMetrics is cancelled / expired
  reader,       \* the periodic reader: "running", "flushing", "stopped"
  shutdownReturned, \* Shutdown has returned
  cycles,       \* export cycles started by the reader's ticker
  exports,      \* snapshots handed to the exporter
  cb,           \* the callback the running collection is at (0: none runs)
  cycleErr,     \* a callback of the running collection returned an error
  cycleFetches, \* fetchShardInfo calls made in the running collection
  pc,           \* the invoked callback: idle, request, wait, loop, return
  idx,          \* fetchShardInfo's position in indices
  requests,     \* the index names requested by this invocation, in order
  responses,    \* the record lists decoded by this invocation, in order
  allShards,    \* fetchShardInfo's allShards, then the callback's shards
  observed,     \* the observations this invocation made on the gauge
  cbErr,        \* the error this invocation returned
  fetchFailed,  \* a request or decode of this invocation failed
  cancelledInFlight \* the context was cancelled while a request was in flight

pvars == <<store, result, ppc>>
cvars == <<instruments, registered, collectErr, ctxDone, reader,
           shutdownReturned, cycles, exports, cb, cycleErr, cycleFetches,
           pc, idx, requests, responses, allShards, observed, cbErr,
           fetchFailed, cancelledInFlight>>
vars == <<pvars, cvars>>

-----------------------------------------------------------------------------
(* float64 values and errors *)

\* The float64 n * 2^p2 * 5^p5 (TLC's integers are 32 bits wide, so a byte
\* count is kept factored rather than multiplied out).
Float(n, p2, p5) == [nan |-> FALSE, n |-> n, p2 |-> p2, p5 |-> p5]
NaN == [nan |-> TRUE, n |-> 0, p2 |-> 0, p5 |-> 0]
Zero == Float(0, 0, 0)

RECURSIVE Norm(_)
\* The canonical form: a mantissa divisible by neither 2 nor 5.
Norm(v) ==
  IF v.nan THEN v
  ELSE IF v.n = 0 THEN Zero
  ELSE IF v.n % 2 = 0 THEN Norm(Float(v.n \div 2, v.p2 + 1, v.p5))
  ELSE IF v.n % 5 = 0 THEN Norm(Float(v.n \div 5, v.p2, v.p5 + 1))
  ELSE v

\* value * multiplier (part_000:174)
Times(v, w) ==
  IF v.nan \/ w.nan THEN NaN
  ELSE Norm(Float(v.n * w.n, v.p2 + w.p2, v.p5 + w.p5))

\* The multipliers 1024, 1024 * 1024, 1024 * 1024 * 1024 (part_000:157-163)
KiB == Float(1, 10, 0)
MiB == Float(1, 20, 0)
GiB == Float(1, 30, 0)

NoErr == [kind |-> "nil", arg |-> <<>>]
\* fmt.Errorf("unknown size unit in: %s", store)
UnknownUnit(s) == [kind |-> "unknown size unit", arg |-> s]
\* fmt.Errorf("failed to parse size value: %w", err); the wrapped
\* *strconv.NumError carries the string ParseFloat was given.
ParseErr(s) == [kind |-> "failed to parse size value", arg |-> s]

-----------------------------------------------------------------------------
(* strings *)

IsSpace(c) == c = " "

RECURSIVE TrimLeft(_)
TrimLeft(s) ==
  IF s # <<>> /\ IsSpace(Head(s)) THEN TrimLeft(Tail(s)) ELSE s

RECURSIVE TrimRight(_)
TrimRight(s) ==
  IF s # <<>> /\ IsSpace(s[Len(s)])
  THEN TrimRight(SubSeq(s, 1, Len(s) - 1)) ELSE s

\* strings.TrimSpace
TrimSpace(s) == TrimRight(TrimLeft(s))

\* strings.HasSuffix
HasSuffix(s, suf) ==
  /\ Len(s) >= Len(suf)
  /\ SubSeq(s, Len(s) - Len(suf) + 1, Len(s)) = suf

\* strings.TrimSuffix
TrimSuffix(s, suf) ==
  IF HasSuffix(s, suf) THEN SubSeq(s, 1, Len(s) - Len(suf)) ELSE s

kb == <<"k", "b">>
mb == <<"m", "b">>
gb == <<"g", "b">>

DigitVal(c) ==
  CASE c = "0" -> 0 [] c = "1" -> 1 [] c = "2" -> 2 [] c = "3" -> 3
    [] c = "4" -> 4 [] c = "5" -> 5 [] c = "6" -> 6 [] c = "7" -> 7
    [] c = "8" -> 8 [] c = "9" -> 9

RECURSIVE DigitsVal(_)
\* The integer a string of digits denotes.
DigitsVal(s) ==
  IF s = <<>> THEN 0
  ELSE 10 * DigitsVal(SubSeq(s, 1, Len(s) - 1)) + DigitVal(s[Len(s)])

\* A plain decimal numeral: digits with at most one point and at least one
\* digit ("1", "1.", ".5", "0.1").
IsDecimal(s) ==
  /\ \A i \in 1..Len(s) : s[i] \in Digits \cup {"."}
  /\ Cardinality({i \in 1..Len(s) : s[i] = "."}) <= 1
  /\ \E i \in 1..Len(s) : s[i] \in Digits

\* The value of a plain decimal numeral.
DecimalValue(s) ==
  LET dots == {i \in 1..Len(s) : s[i] = "."}
      p == IF dots = {} THEN Len(s) + 1 ELSE CHOOSE i \in dots : TRUE
      int == SubSeq(s, 1, p - 1)
      frac == SubSeq(s, p + 1, Len(s))
  IN Norm(Float(DigitsVal(int \o frac), 0 - Len(frac), 0 - Len(frac)))

\* strconv.ParseFloat(s, 64) on strings over Chars: <<value, ok>>.  Besides
\* decimal numerals it accepts the special value "nan" (and "inf",
\* "infinity" and hexadecimal floats, which need characters outside Chars).
ParseFloat(s) ==
  IF s = <<"n", "a", "n">> THEN <<NaN, TRUE>>
  ELSE IF IsDecimal(s) THEN <<DecimalValue(s), TRUE>>
  ELSE <<Zero, FALSE>>

\* The multiplier switch of convertStoreToBytes applied to the trimmed store.
Convert(t, kbMult, mbMult, gbMult) ==
  LET mult == IF HasSuffix(t, kb) THEN kbMult
              ELSE IF HasSuffix(t, mb) THEN mbMult
              ELSE IF HasSuffix(t, gb) THEN gbMult
              ELSE Zero
      rest == IF HasSuffix(t, kb) THEN TrimSuffix(t, kb)
              ELSE IF HasSuffix(t, mb) THEN TrimSuffix(t, mb)
              ELSE TrimSuffix(t, gb)
      parsed == ParseFloat(rest)
  IN IF mult = Zero THEN [value |-> Zero, err |-> UnknownUnit(t)]
     ELSE IF ~parsed[2] THEN [value |-> Zero, err |-> ParseErr(rest)]
     ELSE [value |-> Times(parsed[1], mult), err |-> NoErr]

\* Mutant: decimal (SI) multipliers instead of binary ones.
convertStoreToBytes_decimal(s) ==
  LET t == TrimSpace(s)
  IN IF t = <<>> THEN [value |-> Zero, err |-> NoErr]
     ELSE Convert(t, Float(1, 3, 3), Float(1, 6, 6), Float(1, 9, 9))

\* Mutant: the unknown-unit error reports the argument as it was passed.
convertStoreToBytes_untrimmed(s) ==
  LET t == TrimSpace(s)
      r == Convert(t, KiB, MiB, GiB)
  IN IF t = <<>> THEN [value |-> Zero, err |-> NoErr]
     ELSE IF r.err.kind = "unknown size unit"
          THEN [r EXCEPT !.err = UnknownUnit(s)]
          ELSE r

\* convertStoreToBytes (part_000:148-175)
convertStoreToBytes(s) ==
  LET t == TrimSpace(s)
  IN IF t = <<>> THEN [value |-> Zero, err |-> NoErr]
     ELSE Convert(t, KiB, MiB, GiB)

-----------------------------------------------------------------------------
(* The collector *)

\* Rows of the _cat/shards response (type ShardInfo).  The code accepts any
\* row for any index; three rows cover a size that parses, a missing size
\* (an unassigned shard) and a size in plain bytes.
ShardStarted ==
  [index |-> "otlp-metrics", shard |-> "0", prirep |-> "p",
   state |-> "STARTED", docs |-> "10", store |-> <<"1", "k", "b">>,
   ip |-> "10.0.0.1", node |-> "node-1"]
ShardUnassigned ==
  [index |-> "otlp-logs", shard |-> "1", prirep |-> "r",
   state |-> "UNASSIGNED", docs |-> "", store |-> <<>>,
   ip |-> "", node |-> ""]
ShardBytes ==
  [index |-> "otlp-logs", shard |-> "2", prirep |-> "p",
   state |-> "STARTED", docs |-> "7", store |-> <<"1", "b">>,
   ip |-> "10.0.0.2", node |-> "node-2"]
ShardInfo == {ShardStarted, ShardUnassigned, ShardBytes}

\* The bodies a request can decode to.
Responses == UNION {[1..n -> ShardInfo] : n \in 0..MaxShards}

\* indices (part_000:121)
indices == <<"otlp-metrics", "otlp-logs">>

\* The instrument CollectMetrics asks the meter for (part_000:80-84).
Gauge ==
  [name |-> "opensearch.shard.store.size",
   description |-> "Size of the shard store in bytes", unit |-> "bytes"]

ErrNil == "nil"
ErrExecute == "failed to fetch shard info: failed to execute request"
ErrDecode == "failed to fetch shard info: failed to decode response"
ErrConvert == "failed to convert store size"
FetchErrors == {ErrExecute, ErrDecode}

\* Mutant: node and ip exchanged.
Attrs_swapped(shard) ==
  [index |-> shard.index, shard |-> shard.shard, prirep |-> shard.prirep,
   state |-> shard.state, node |-> shard.ip, ip |-> shard.node]

\* attrs (part_000:101-108)
Attrs(shard) ==
  [index |-> shard.index, shard |-> shard.shard, prirep |-> shard.prirep,
   state |-> shard.state, node |-> shard.node, ip |-> shard.ip]

RECURSIVE ObserveShards(_, _)
\* The callback's loop over shards (part_000:95-112): the observations made
\* so far, and the error it returned.
ObserveShards(shards, acc) ==
  IF shards = <<>> THEN [obs |-> acc, err |-> ErrNil]
  ELSE LET sizeInBytes == convertStoreToBytes(Head(shards).store)
       IN IF sizeInBytes.err # NoErr THEN [obs |-> acc, err |-> ErrConvert]
          ELSE ObserveShards(Tail(shards),
                 Append(acc, [value |-> sizeInBytes.value,
                              attrs |-> Attrs(Head(shards))]))

\* Mutant: requests carry no context.
reqCtxDone_background == FALSE

\* The context the requests are bound to is done: the closure passes the ctx
\* of CollectMetrics to http.NewRequestWithContext (part_000:90, 126).
reqCtxDone == ctxDone

Init ==
  /\ store = <<>>
  /\ result = [value |-> Zero, err |-> NoErr]
  /\ ppc = "off"
  /\ instruments = {}
  /\ registered = 0
  /\ collectErr = "none"
  /\ ctxDone = FALSE
  /\ reader = "running"
  /\ shutdownReturned = FALSE
  /\ cycles = 0
  /\ exports = 0
  /\ cb = 0
  /\ cycleErr = FALSE
  /\ cycleFetches = 0
  /\ pc = "idle"
  /\ idx = 0
  /\ requests = <<>>
  /\ responses = <<>>
  /\ allShards = <<>>
  /\ observed = <<>>
  /\ cbErr = ErrNil
  /\ fetchFailed = FALSE
  /\ cancelledInFlight = FALSE

invocation == <<pc, idx, requests, responses, allShards, observed, cbErr,
                fetchFailed, cancelledInFlight>>
collection == <<cb, cycleErr, cycleFetches>>
meter == <<instruments, registered, collectErr>>

\* Mutant: a second registration is refused.
CollectMetrics_once ==
  /\ reader = "running"
  /\ cb = 0
  /\ registered < MaxCollect
  /\ instruments' = instruments \cup {Gauge}
  /\ registered' = IF Gauge \in instruments THEN registered ELSE registered + 1
  /\ collectErr' = IF Gauge \in instruments
                   THEN "failed to create store size gauge" ELSE ErrNil
  /\ UNCHANGED <<pvars, ctxDone, reader, shutdownReturned, cycles, exports,
                 collection, invocation>>

\* CollectMetrics (part_000:79-116), called by main on every tick while the
\* provider is live.  The meter returns the instrument it already holds for
\* an identical request, and RegisterCallback adds a callback; the
\* Registration it returns is dropped, so nothing is ever unregistered.
\* Registration waits for a running collection (cb = 0).
CollectMetrics ==
  /\ reader = "running"
  /\ cb = 0
  /\ registered < MaxCollect
  /\ instruments' = instruments \cup {Gauge}
  /\ registered' = registered + 1
  /\ collectErr' = ErrNil
  /\ UNCHANGED <<pvars, ctxDone, reader, shutdownReturned, cycles, exports,
                 collection, invocation>>

\* The context passed to CollectMetrics is cancelled or its deadline passes.
Cancel ==
  /\ ~ctxDone
  /\ ctxDone' = TRUE
  /\ cancelledInFlight' = (pc = "wait")
  /\ UNCHANGED <<pvars, meter, reader, shutdownReturned, cycles, exports,
                 collection, pc, idx, requests, responses, allShards,
                 observed, cbErr, fetchFailed>>

\* The periodic reader's ticker starts an export cycle (part_000:60-65).
Tick ==
  /\ reader = "running"
  /\ cb = 0
  /\ cycles < MaxCycles
  /\ cycles' = cycles + 1
  /\ cb' = 1
  /\ cycleErr' = FALSE
  /\ cycleFetches' = 0
  /\ UNCHANGED <<pvars, meter, ctxDone, reader, shutdownReturned, exports,
                 invocation>>

\* The collection invokes the next registered callback, which calls
\* fetchShardInfo (part_000:89-90, 118-121).
Invoke ==
  /\ pc = "idle"
  /\ cb >= 1
  /\ cb <= registered
  /\ pc' = "request"
  /\ idx' = 1
  /\ cycleFetches' = cycleFetches + 1
  /\ UNCHANGED <<pvars, meter, ctxDone, reader, shutdownReturned, cycles,
                 exports, cb, cycleErr, requests, responses, allShards,
                 observed, cbErr, fetchFailed, cancelledInFlight>>

\* fetchShardInfo builds and sends the request for indices[idx]
\* (part_000:124-131).
SendRequest ==
  /\ pc = "request"
  /\ requests' = Append(requests, indices[idx])
  /\ pc' = "wait"
  /\ UNCHANGED <<pvars, meter, ctxDone, reader, shutdownReturned, cycles,
                 exports, collection, idx, responses, allShards, observed,
                 cbErr, fetchFailed, cancelledInFlight>>

\* The response arrives and decodes (part_000:131-142); a request whose
\* context is done does not complete.
ResponseOK ==
  /\ pc = "wait"
  /\ ~reqCtxDone
  /\ \E shards \in Responses :
       /\ responses' = Append(responses, shards)
       /\ allShards' = allShards \o shards
  /\ IF idx = Len(indices)
     THEN pc' = "loop" /\ idx' = idx
     ELSE pc' = "request" /\ idx' = idx + 1
  /\ UNCHANGED <<pvars, meter, ctxDone, reader, shutdownReturned, cycles,
                 exports, collection, requests, observed, cbErr,
                 fetchFailed, cancelledInFlight>>

\* Mutant: a failed request ends the loop and the records decoded so far are
\* returned.
FetchFails_partial ==
  /\ pc = "wait"
  /\ fetchFailed' = TRUE
  /\ pc' = "loop"
  /\ UNCHANGED <<pvars, meter, ctxDone, reader, shutdownReturned, cycles,
                 exports, collection, idx, requests, responses, allShards,
                 observed, cbErr, cancelledInFlight>>

\* The request fails (transport error, the client's timeout, a done context)
\* or its body does not decode: fetchShardInfo returns nil and the error
\* (part_000:132-134, 138-140) and the callback returns it wrapped
\* (part_000:91-93).
FetchFails ==
  /\ pc = "wait"
  /\ \E e \in FetchErrors : cbErr' = e
  /\ fetchFailed' = TRUE
  /\ allShards' = <<>>
  /\ pc' = "return"
  /\ UNCHANGED <<pvars, meter, ctxDone, reader, shutdownReturned, cycles,
                 exports, collection, idx, requests, responses, observed,
                 cancelledInFlight>>

\* The callback converts and observes the fetched records in order and
\* returns at the first store that does not convert (part_000:95-112).
ObserveLoop ==
  /\ pc = "loop"
  /\ LET r == ObserveShards(allShards, <<>>)
     IN observed' = r.obs /\ cbErr' = r.err
  /\ pc' = "return"
  /\ UNCHANGED <<pvars, meter, ctxDone, reader, shutdownReturned, cycles,
                 exports, collection, idx, requests, responses, allShards,
                 fetchFailed, cancelledInFlight>>

\* The callback has returned: the collection notes its error and moves on.
Return ==
  /\ pc = "return"
  /\ cycleErr' = (cycleErr \/ cbErr # ErrNil)
  /\ cb' = cb + 1
  /\ pc' = "idle"
  /\ idx' = 0
  /\ requests' = <<>>
  /\ responses' = <<>>
  /\ allShards' = <<>>
  /\ observed' = <<>>
  /\ cbErr' = ErrNil
  /\ fetchFailed' = FALSE
  /\ cancelledInFlight' = FALSE
  /\ UNCHANGED <<pvars, meter, ctxDone, reader, shutdownReturned, cycles,
                 exports, cycleFetches>>

\* Every callback has run: the reader exports the snapshot unless a callback
\* failed.  The flush of Shutdown ends here, and Shutdown returns.
Export ==
  /\ pc = "idle"
  /\ cb = registered + 1
  /\ exports' = IF cycleErr THEN exports ELSE exports + 1
  /\ cb' = 0
  /\ reader' = IF reader = "flushing" THEN "stopped" ELSE reader
  /\ shutdownReturned' = (shutdownReturned \/ reader = "flushing")
  /\ UNCHANGED <<pvars, meter, ctxDone, cycles, cycleErr, cycleFetches,
                 invocation>>

\* Mutant: Shutdown returns without shutting the meter provider down.
Shutdown_noop ==
  /\ reader = "running"
  /\ cb = 0
  /\ ~shutdownReturned
  /\ shutdownReturned' = TRUE
  /\ UNCHANGED <<pvars, meter, ctxDone, reader, cycles, exports, collection,
                 invocation>>

\* Shutdown (part_000:177-179; main.go:22): the provider stops the reader's
\* ticker, waits for a running collection, and collects once more to flush.
Shutdown ==
  /\ reader = "running"
  /\ cb = 0
  /\ ~shutdownReturned
  /\ reader' = "flushing"
  /\ cb' = 1
  /\ cycleErr' = FALSE
  /\ cycleFetches' = 0
  /\ UNCHANGED <<pvars, meter, ctxDone, shutdownReturned, cycles, exports,
                 invocation>>

Next ==
  \/ CollectMetrics
  \/ Cancel
  \/ Tick
  \/ Invoke
  \/ SendRequest
  \/ ResponseOK
  \/ FetchFails
  \/ ObserveLoop
  \/ Return
  \/ Export
  \/ Shutdown

Spec == Init /\ [][Next]_vars

-----------------------------------------------------------------------------
(* SpecParse: convertStoreToBytes on every bounded input *)

\* Every string over Chars of length at most MaxLen, drawn as a first and a
\* second half.
InitParse ==
  /\ \E n \in 0..MaxLen :
       \E a \in StringsOfLen(n \div 2), b \in StringsOfLen(n - n \div 2) :
         store = a \o b
  /\ result = [value |-> Zero, err |-> NoErr]
  /\ ppc = "call"
  /\ instruments = {}
  /\ registered = 0
  /\ collectErr = "none"
  /\ ctxDone = FALSE
  /\ reader = "running"
  /\ shutdownReturned = FALSE
  /\ cycles = 0
  /\ exports = 0
  /\ cb = 0
  /\ cycleErr = FALSE
  /\ cycleFetches = 0
  /\ pc = "idle"
  /\ idx = 0
  /\ requests = <<>>
  /\ responses = <<>>
  /\ allShards = <<>>
  /\ observed = <<>>
  /\ cbErr = ErrNil
  /\ fetchFailed = FALSE
  /\ cancelledInFlight = FALSE

CallConvert ==
  /\ ppc = "call"
  /\ result' = convertStoreToBytes(store)
  /\ ppc' = "done"
  /\ UNCHANGED <<store, cvars>>

NextParse == CallConvert

SpecParse == InitParse /\ [][NextParse]_vars

-----------------------------------------------------------------------------
(* Properties of the collector (Spec) *)

\* The store of every record of every response converts.
AllStoresParse ==
  \A k \in 1..Len(responses) : \A i \in 1..Len(responses[k]) :
    convertStoreToBytes(responses[k][i].store).err = NoErr

\* The observation a record should give: its converted size and its own
\* fields as attributes.
Expected(rec) ==
  [value |-> convertStoreToBytes(rec.store).value,
   attrs |-> [index |-> rec.index, shard |-> rec.shard,
              prirep |-> rec.prirep, state |-> rec.state,
              node |-> rec.node, ip |-> rec.ip]]

\* C1 (as claimed): when a fetched record's store does not convert, the
\* callback returns an error and the gauge has received no observation from
\* that invocation, not even for the records before the failing one.
C1_AllOrNothing ==
  (pc = "return"
   /\ \E i \in 1..Len(allShards) :
        convertStoreToBytes(allShards[i].store).err # NoErr)
  => cbErr = ErrConvert /\ observed = <<>>

\* C2 (as claimed): once CollectMetrics has been called at least once, a
\* collection makes exactly one fetchShardInfo call.
C2_OneFetchPerCycle ==
  (registered >= 1 /\ cb = registered + 1) => cycleFetches = 1

\* C3: when both requests succeed with N and M records and every store
\* converts, the callback returns nil having made N+M observations: the
\* otlp-metrics records in response order, then the otlp-logs records, each
\* with its converted size and its own fields as attributes.
C3_ObservationsInSourceOrder ==
  (pc = "return" /\ Len(responses) = Len(indices) /\ AllStoresParse) =>
    LET N == Len(responses[1])
        M == Len(responses[2])
    IN /\ cbErr = ErrNil
       /\ requests = indices
       /\ Len(observed) = N + M
       /\ \A i \in 1..N : observed[i] = Expected(responses[1][i])
       /\ \A j \in 1..M : observed[N + j] = Expected(responses[2][j])

\* C3 witness: two records for otlp-metrics and one for otlp-logs were
\* observed.
C3_Witness ==
  /\ pc = "return"
  /\ responses = <<<<ShardStarted, ShardUnassigned>>, <<ShardStarted>>>>
  /\ cbErr = ErrNil
  /\ Len(observed) = 3

\* C4: requests go out one at a time in the order otlp-metrics, otlp-logs,
\* none twice; when a request or decode fails, fetchShardInfo returns the
\* error and no records, no later request is issued, and the callback has
\* failed without an observation.
C4_FetchFailureAborts ==
  /\ requests = SubSeq(indices, 1, Len(requests))
  /\ Len(requests) \in {Len(responses), Len(responses) + 1}
  /\ (pc = "wait") = (Len(requests) = Len(responses) + 1 /\ ~fetchFailed)
  /\ fetchFailed =>
       /\ pc = "return"
       /\ cbErr \in FetchErrors
       /\ allShards = <<>>
       /\ observed = <<>>
       /\ Len(requests) = Len(responses) + 1

\* C4 witness: the request for otlp-logs failed after otlp-metrics had
\* returned records.
C4_Witness ==
  /\ fetchFailed
  /\ pc = "return"
  /\ requests = indices
  /\ Len(responses) = 1
  /\ responses[1] # <<>>
  /\ allShards = <<>>

\* C7: once the context is cancelled while a request is in flight, that
\* request can only fail: the invocation ends with a fetch error and without
\* an observation, and never goes on to a later request or to observing.
C7_CancelInFlightFails ==
  cancelledInFlight =>
    \/ pc = "wait" /\ ~fetchFailed
    \/ /\ pc = "return"
       /\ cbErr \in FetchErrors
       /\ observed = <<>>
       /\ allShards = <<>>

\* C7 witness: the context was cancelled during the request for otlp-logs
\* and the callback has returned.
C7_Witness ==
  /\ cancelledInFlight
  /\ pc = "return"
  /\ Len(responses) = 1
  /\ responses[1] # <<>>

\* C8: after Shutdown has returned, no callback is invoked, no fetch is made
\* and nothing is exported.
C8_NothingAfterShutdown ==
  [][shutdownReturned =>
       /\ exports' = exports
       /\ cycleFetches' = cycleFetches
       /\ cb' = 0
       /\ pc' = "idle"]_vars

\* C8 witness: Shutdown has returned with two callbacks registered, its flush
\* having invoked both, and the reader's ticker had cycles left.
C8_Witness ==
  /\ shutdownReturned
  /\ registered = 2
  /\ cycleFetches = 2
  /\ cycles < MaxCycles

-----------------------------------------------------------------------------
(* Properties of convertStoreToBytes (SpecParse) *)

\* s is i spaces, then core, then j spaces, and core neither starts nor ends
\* with a space: core is s without its surrounding whitespace.
IsCore(s, i, j) ==
  /\ i + j <= Len(s)
  /\ \A x \in 1..i : s[x] = " "
  /\ \A x \in (Len(s) - j + 1)..Len(s) : s[x] = " "
  /\ i + j < Len(s) => s[i + 1] # " " /\ s[Len(s) - j] # " "

Core(s, i, j) == SubSeq(s, i + 1, Len(s) - j)

\* The unit suffixes with the binary exponent of their multiplier.
Units == {<<kb, 10>>, <<mb, 20>>, <<gb, 30>>}

EndsIn(core, u) ==
  Len(core) >= 2 /\ SubSeq(core, Len(core) - 1, Len(core)) = u

Body(core) == SubSeq(core, 1, Len(core) - 2)

\* C5: convertStoreToBytes ignores surrounding whitespace; an input that is
\* empty after trimming gives 0 with no error; a decimal number followed by
\* kb, mb or gb gives the number times 2^10, 2^20, 2^30 with no error
\* ("1kb" gives 1024, "0mb" gives 0).
C5_TrimThenScale ==
  ppc = "done" =>
    /\ \A i, j \in 0..Len(store) : IsCore(store, i, j) =>
         LET core == Core(store, i, j) IN
         /\ core = <<>> => result = [value |-> Zero, err |-> NoErr]
         /\ \A u \in Units :
              EndsIn(core, u[1]) /\ IsDecimal(Body(core)) =>
                result = [value |-> Times(DecimalValue(Body(core)),
                                          Float(1, u[2], 0)),
                          err |-> NoErr]
    /\ store = <<"1", "k", "b">> => result.value = Float(1, 10, 0)
    /\ store = <<"0", "m", "b">> => result.value = Zero
    /\ store = <<".", "1", "g", "b">> => result.value = Float(1, 29, -1)

\* C5 witness: a padded number with a unit was converted to a non-zero size.
C5_Witness ==
  /\ ppc = "done"
  /\ store = <<" ", "1", "1", "m", "b">>
  /\ result = [value |-> Float(11, 20, 0), err |-> NoErr]

\* C6 (as claimed): a non-empty trimmed input ending in none of kb, mb, gb
\* fails with the unknown-unit error; one ending in a unit whose remainder is
\* not a base-10 number fails with the malformed-number error; a failing
\* call returns 0.
C6_ErrorClassification ==
  ppc = "done" =>
    \A i, j \in 0..Len(store) : IsCore(store, i, j) =>
      LET core == Core(store, i, j) IN
      /\ (core # <<>> /\ \A u \in Units : ~EndsIn(core, u[1])) =>
           result.err.kind = "unknown size unit" /\ result.value = Zero
      /\ ((\E u \in Units : EndsIn(core, u[1])) /\ ~IsDecimal(Body(core))) =>
           result.err.kind = "failed to parse size value"
           /\ result.value = Zero

\* C10 (as claimed): the unknown-unit error carries the input as passed.
C10_CarriesOriginalInput ==
  (ppc = "done" /\ result.err.kind = "unknown size unit") =>
    result.err.arg = store

\* C10 (amended): the unknown-unit error carries the input with its
\* surrounding whitespace removed.
C10_CarriesTrimmedInput ==
  (ppc = "done" /\ result.err.kind = "unknown size unit") =>
    \A i, j \in 0..Len(store) : IsCore(store, i, j) =>
      result.err.arg = Core(store, i, j)

\* C10 witness: an unknown-unit failure on an input with whitespace on both
\* sides.
C10_Witness ==
  /\ ppc = "done"
  /\ store = <<" ", "1", "b", " ">>
  /\ result.err = UnknownUnit(<<"1", "b">>)

====
